---- MODULE Spec2Model ----
(***************************************************************************)
(* Verification model of the request-processing core of the router:        *)
(*   - the Automatic Persisted Query stage (layers/apq.rs): APQService     *)
(*     wrapping an inner tower Service and sharing one moka cache between  *)
(*     all services produced by the APQ layer.                             *)
(***************************************************************************)
EXTENDS Integers, Sequences, FiniteSets, TLC

(***************************************************************************)
(* Query texts and their SHA-256 digests.  The digests are the real        *)
(* SHA-256 values of the UTF-8 bytes of each text (sha2::Sha256), kept as  *)
(* 32-byte sequences; hash strings are sequences of one-character strings. *)
(***************************************************************************)
QTypename == "{__typename}"
QMe == "{me{id}}"
QHello == "{hello}"
Queries == {"", QTypename, QMe, QHello}

DigestEmpty ==
    <<227,176,196,66,152,252,28,20,154,251,244,200,153,111,185,36,39,174,65,228,100,155,147,76,
      164,149,153,27,120,82,184,85>>
DigestTypename ==
    <<236,244,237,180,109,180,11,81,50,41,92,2,145,214,47,182,93,103,89,169,238,223,164,213,214,
      18,221,94,197,74,107,56>>
DigestMe ==
    <<138,26,180,176,17,36,88,254,174,103,76,128,210,217,28,203,200,32,224,206,221,0,3,101,192,
      182,98,113,238,131,170,121>>
DigestHello ==
    <<157,215,255,152,127,172,141,13,25,121,8,78,189,229,206,139,216,85,205,6,109,26,52,233,132,
      50,39,92,198,188,38,76>>

\* Sha256::new(); digest.update(query.as_bytes()); digest.finalize()
Sha256(query) ==
    CASE query = "" -> DigestEmpty
      [] query = QTypename -> DigestTypename
      [] query = QMe -> DigestMe
      [] query = QHello -> DigestHello

\* sha256Hash strings a client may put in the persistedQuery extension
HexTypename ==
    <<"e","c","f","4","e","d","b","4","6","d","b","4","0","b","5","1","3","2","2","9","5","c",
      "0","2","9","1","d","6","2","f","b","6","5","d","6","7","5","9","a","9","e","e","d","f",
      "a","4","d","5","d","6","1","2","d","d","5","e","c","5","4","a","6","b","3","8">>
HexTypenameUpper ==
    <<"E","C","F","4","E","D","B","4","6","D","B","4","0","B","5","1","3","2","2","9","5","C",
      "0","2","9","1","D","6","2","F","B","6","5","D","6","7","5","9","A","9","E","E","D","F",
      "A","4","D","5","D","6","1","2","D","D","5","E","C","5","4","A","6","B","3","8">>
HexMe ==
    <<"8","a","1","a","b","4","b","0","1","1","2","4","5","8","f","e","a","e","6","7","4","c",
      "8","0","d","2","d","9","1","c","c","b","c","8","2","0","e","0","c","e","d","d","0","0",
      "0","3","6","5","c","0","b","6","6","2","7","1","e","e","8","3","a","a","7","9">>
HexHello ==
    <<"9","d","d","7","f","f","9","8","7","f","a","c","8","d","0","d","1","9","7","9","0","8",
      "4","e","b","d","e","5","c","e","8","b","d","8","5","5","c","d","0","6","6","d","1","a",
      "3","4","e","9","8","4","3","2","2","7","5","c","c","6","b","c","2","6","4","c">>
HexEmpty ==
    <<"e","3","b","0","c","4","4","2","9","8","f","c","1","c","1","4","9","a","f","b","f","4",
      "c","8","9","9","6","f","b","9","2","4","2","7","a","e","4","1","e","4","6","4","9","b",
      "9","3","4","c","a","4","9","5","9","9","1","b","7","8","5","2","b","8","5","5">>
\* the hash of the second test: last digit changed, digest of no query here
HexWrong ==
    <<"e","c","f","4","e","d","b","4","6","d","b","4","0","b","5","1","3","2","2","9","5","c",
      "0","2","9","1","d","6","2","f","b","6","5","d","6","7","5","9","a","9","e","e","d","f",
      "a","4","d","5","d","6","1","2","d","d","5","e","c","5","4","a","6","b","3","6">>
HexNotHex == <<"x","y","z","!">>
HexOddLength == <<"e","c","f">>
HashStrings ==
    {HexTypename, HexTypenameUpper, HexMe, HexHello, HexEmpty, HexWrong, HexNotHex,
     HexOddLength}

(***************************************************************************)
(* JSON values found under extensions["persistedQuery"].                   *)
(***************************************************************************)
JAbsent == [t |-> "absent", n |-> 0, s |-> <<>>]
JNum(k) == [t |-> "num", n |-> k, s |-> <<>>]
JStr(cs) == [t |-> "str", n |-> 0, s |-> cs]

\* the extensions map has no "persistedQuery" key
PQNone == [t |-> "none", version |-> JAbsent, sha256Hash |-> JAbsent]
\* the value is a JSON string, not an object
PQString == [t |-> "string", version |-> JAbsent, sha256Hash |-> JAbsent]
PQObject(v, h) == [t |-> "object", version |-> v, sha256Hash |-> h]
\* the extension the tests build: {"version": 1, "sha256Hash": h}
PQ(h) == PQObject(JNum(1), JStr(h))

ExtValues ==
    {PQNone, PQString,
     PQObject(JAbsent, JStr(HexTypename)),
     PQObject(JNum(256), JStr(HexTypename)),
     PQObject(JNum(1), JNum(7))}
    \cup {PQ(h) : h \in HashStrings}

\* struct PersistedQuery { version: u8, sha256Hash: String } through serde
NoDescriptor == [ok |-> FALSE, version |-> 0, sha256hash |-> <<>>]
\* mutant: version is read without the u8 range
PersistedQuery_AnyVersion(value) ==
    IF /\ value.t = "object"
       /\ value.version.t = "num"
       /\ value.sha256Hash.t = "str"
    THEN [ok |-> TRUE, version |-> value.version.n, sha256hash |-> value.sha256Hash.s]
    ELSE NoDescriptor
PersistedQuery(value) ==
    IF /\ value.t = "object"
       /\ value.version.t = "num"
       /\ value.version.n \in 0..255
       /\ value.sha256Hash.t = "str"
    THEN [ok |-> TRUE, version |-> value.version.n, sha256hash |-> value.sha256Hash.s]
    ELSE NoDescriptor

(***************************************************************************)
(* hex::decode: two hex digits of either case per byte; an odd length or   *)
(* a character that is not a hex digit is an error.                        *)
(***************************************************************************)
LowerDigits == <<"0","1","2","3","4","5","6","7","8","9","a","b","c","d","e","f">>
UpperDigits == <<"0","1","2","3","4","5","6","7","8","9","A","B","C","D","E","F">>
\* mutant: only the digits 0-9 and a-f are hex digits
IsHexChar_LowerOnly(c) == \E i \in 1..16 : c = LowerDigits[i]
IsHexChar(c) == \E i \in 1..16 : c = LowerDigits[i] \/ c = UpperDigits[i]
HexVal(c) == (CHOOSE i \in 1..16 : c = LowerDigits[i] \/ c = UpperDigits[i]) - 1

NoHash == [some |-> FALSE, bytes |-> <<>>]
HexDecode(s) ==
    IF Len(s) % 2 # 0 THEN NoHash
    ELSE IF \E i \in 1..Len(s) : ~IsHexChar(s[i]) THEN NoHash
    ELSE [some |-> TRUE,
          bytes |-> [i \in 1..(Len(s) \div 2) |-> 16 * HexVal(s[2*i - 1]) + HexVal(s[2*i])]]

(***************************************************************************)
(* Requests and responses.                                                 *)
(***************************************************************************)
Contexts == {"ctx1", "ctx2"}
Requests == [context : Contexts, persistedQuery : ExtValues, query : Queries]

NoRequest == [context |-> "none", persistedQuery |-> PQNone, query |-> ""]
HttpRequest(req) == [persistedQuery |-> req.persistedQuery, query |-> req.query]
NoContext == [ctx |-> "none", request |-> HttpRequest(NoRequest)]

\* the error APQ::with_capacity pushes on its response builder
MissError ==
    [message |-> "PersistedQueryNotFound",
     locations |-> <<>>,
     path |-> "None",
     extensions |->
        [code |-> "PERSISTED_QUERY_NOT_FOUND",
         exception |->
            [stacktrace |-> <<"PersistedQueryNotFoundError: PersistedQueryNotFound">>]]]

NoResult == [status |-> "none", errors |-> <<>>, context |-> NoContext]
\* req.context.with_request(Arc::new(req.http_request))
with_request(context, http_request) == [ctx |-> context, request |-> http_request]
\* mutant: the response is built without with_context
BuildMissResponse_NoContext(context) ==
    [status |-> "Ok", errors |-> <<MissError>>, context |-> NoContext]
\* response_builder.with_context(context).build()
BuildMissResponse(context) == [status |-> "Ok", errors |-> <<MissError>>, context |-> context]

\* what the inner service may answer to a forwarded request
InnerOk(req) ==
    [status |-> "Ok", errors |-> <<>>,
     context |-> with_request(req.context, HttpRequest(req))]
InnerErr == [status |-> "Err", errors |-> <<>>, context |-> NoContext]

(***************************************************************************)
(* The cache: moka::sync::Cache<Vec<u8>, String>, a function from digest   *)
(* bytes to query text.                                                    *)
(***************************************************************************)
Capacity == 1
EmptyCache == [k \in {} |-> ""]
\* mutant: the insert is lost
CacheInsert_Lost(c, key, value) == c
\* mutant: a new key becomes visible before its value is written
CacheInsert_Partial(c, key, value) ==
    [k \in (DOMAIN c) \cup {key} |->
        IF k = key THEN (IF key \in DOMAIN c THEN value ELSE "") ELSE c[k]]
CacheInsert(c, key, value) ==
    [k \in (DOMAIN c) \cup {key} |-> IF k = key THEN value ELSE c[k]]
CacheContains(c, key) == key \in DOMAIN c
CacheGet(c, key) == c[key]
CacheRemove(c, key) == [k \in (DOMAIN c) \ {key} |-> c[k]]

\* mutant: only the digest's first byte is compared
query_matches_hash_FirstByte(query, hash) ==
    Len(hash) > 0 /\ hash[1] = Sha256(query)[1]
query_matches_hash(query, hash) == hash = Sha256(query)

\* lines 97-107: the decoded hash of the descriptor under "persistedQuery", if any
DescriptorHash(value) ==
    IF value.t = "none" THEN NoHash
    ELSE LET persisted_query == PersistedQuery(value)
         IN  IF persisted_query.ok THEN HexDecode(persisted_query.sha256hash) ELSE NoHash
\* DescriptorHash over the extension values of the model, evaluated once
DescriptorHashOf == [value \in ExtValues |-> DescriptorHash(value)]
MaybeQueryHash(req) == DescriptorHashOf[req.persistedQuery]

(***************************************************************************)
(* APQService::call on cache c: the new cache, whether the request went to *)
(* the inner service (and in what form) or was answered locally, and how   *)
(* many inner calls and cache operations the call made.                    *)
(***************************************************************************)
\* mutant: the insert is not guarded by query_matches_hash
InsertIfVerified_Unchecked(req, c, query_hash) ==
    [cache |-> CacheInsert(c, query_hash, req.query),
     outcome |-> "forwarded", fwd |-> req, res |-> NoResult,
     inner |-> 1, ops |-> 1]

\* mutant: a digest mismatch is answered with the miss response
InsertIfVerified_Reject(req, c, query_hash) ==
    IF query_matches_hash(req.query, query_hash)
    THEN [cache |-> CacheInsert(c, query_hash, req.query),
          outcome |-> "forwarded", fwd |-> req, res |-> NoResult,
          inner |-> 1, ops |-> 1]
    ELSE [cache |-> c,
          outcome |-> "synthesized", fwd |-> NoRequest,
          res |-> BuildMissResponse(with_request(req.context, HttpRequest(req))),
          inner |-> 0, ops |-> 0]

\* lines 111-118: descriptor and literal query; insert when the digest matches
InsertIfVerified(req, c, query_hash) ==
    IF query_matches_hash(req.query, query_hash)
    THEN [cache |-> CacheInsert(c, query_hash, req.query),
          outcome |-> "forwarded", fwd |-> req, res |-> NoResult,
          inner |-> 1, ops |-> 1]
    ELSE [cache |-> c,
          outcome |-> "forwarded", fwd |-> req, res |-> NoResult,
          inner |-> 1, ops |-> 0]

\* mutant: on a hit the request is forwarded without the cached text
LookupOrMiss_NoRewrite(req, c, apq_hash) ==
    IF CacheContains(c, apq_hash)
    THEN [cache |-> c,
          outcome |-> "forwarded", fwd |-> req,
          res |-> NoResult, inner |-> 1, ops |-> 1]
    ELSE [cache |-> c,
          outcome |-> "synthesized", fwd |-> NoRequest,
          res |-> BuildMissResponse(with_request(req.context, HttpRequest(req))),
          inner |-> 0, ops |-> 1]

\* mutant: the miss branch lacks its return and falls through to the inner call
LookupOrMiss_FallThrough(req, c, apq_hash) ==
    IF CacheContains(c, apq_hash)
    THEN [cache |-> c,
          outcome |-> "forwarded",
          fwd |-> [req EXCEPT !.query = CacheGet(c, apq_hash)],
          res |-> NoResult, inner |-> 1, ops |-> 1]
    ELSE [cache |-> c,
          outcome |-> "forwarded", fwd |-> req,
          res |-> NoResult, inner |-> 1, ops |-> 1]

\* mutant: on a miss the response is built and the request is forwarded too
LookupOrMiss_AlsoForwards(req, c, apq_hash) ==
    IF CacheContains(c, apq_hash)
    THEN [cache |-> c,
          outcome |-> "forwarded",
          fwd |-> [req EXCEPT !.query = CacheGet(c, apq_hash)],
          res |-> NoResult, inner |-> 1, ops |-> 1]
    ELSE [cache |-> c,
          outcome |-> "synthesized", fwd |-> req,
          res |-> BuildMissResponse(with_request(req.context, HttpRequest(req))),
          inner |-> 1, ops |-> 1]

\* mutant: on a hit the rewritten request loses its persistedQuery extension
LookupOrMiss_DropsExtension(req, c, apq_hash) ==
    IF CacheContains(c, apq_hash)
    THEN [cache |-> c,
          outcome |-> "forwarded",
          fwd |-> [req EXCEPT !.query = CacheGet(c, apq_hash),
                              !.persistedQuery = PQNone],
          res |-> NoResult, inner |-> 1, ops |-> 1]
    ELSE [cache |-> c,
          outcome |-> "synthesized", fwd |-> NoRequest,
          res |-> BuildMissResponse(with_request(req.context, HttpRequest(req))),
          inner |-> 0, ops |-> 1]

\* mutant: the first miss of a digest marks it as asked for, so that later
\* requests for it wait for the text instead of getting the miss response
LookupOrMiss_MarksPending(req, c, apq_hash) ==
    IF CacheContains(c, apq_hash)
    THEN [cache |-> c,
          outcome |-> "forwarded",
          fwd |-> [req EXCEPT !.query = CacheGet(c, apq_hash)],
          res |-> NoResult, inner |-> 1, ops |-> 1]
    ELSE [cache |-> CacheInsert(c, apq_hash, ""),
          outcome |-> "synthesized", fwd |-> NoRequest,
          res |-> BuildMissResponse(with_request(req.context, HttpRequest(req))),
          inner |-> 0, ops |-> 1]

\* mutant: a hit takes the entry out of the cache
LookupOrMiss_TakesEntry(req, c, apq_hash) ==
    IF CacheContains(c, apq_hash)
    THEN [cache |-> CacheRemove(c, apq_hash),
          outcome |-> "forwarded",
          fwd |-> [req EXCEPT !.query = CacheGet(c, apq_hash)],
          res |-> NoResult, inner |-> 1, ops |-> 1]
    ELSE [cache |-> c,
          outcome |-> "synthesized", fwd |-> NoRequest,
          res |-> BuildMissResponse(with_request(req.context, HttpRequest(req))),
          inner |-> 0, ops |-> 1]

\* lines 119-131: descriptor and empty query; cache hit rewrites, miss answers
LookupOrMiss(req, c, apq_hash) ==
    IF CacheContains(c, apq_hash)
    THEN [cache |-> c,
          outcome |-> "forwarded",
          fwd |-> [req EXCEPT !.query = CacheGet(c, apq_hash)],
          res |-> NoResult, inner |-> 1, ops |-> 1]
    ELSE [cache |-> c,
          outcome |-> "synthesized", fwd |-> NoRequest,
          res |-> BuildMissResponse(with_request(req.context, HttpRequest(req))),
          inner |-> 0, ops |-> 1]

\* lines 132-137: no usable descriptor
ForwardUnchanged(req, c) ==
    [cache |-> c,
     outcome |-> "forwarded", fwd |-> req, res |-> NoResult,
     inner |-> 1, ops |-> 0]

call(req, c) ==
    LET maybe_query_hash == MaybeQueryHash(req)
    IN  IF maybe_query_hash.some /\ req.query # ""
        THEN InsertIfVerified(req, c, maybe_query_hash.bytes)
        ELSE IF maybe_query_hash.some
        THEN LookupOrMiss(req, c, maybe_query_hash.bytes)
        ELSE ForwardUnchanged(req, c)

\* mutant: the stage reports itself ready whatever the inner service says
poll_ready_AlwaysReady(inner) == "Ready"
\* mutant: a failure of the inner service is reported as not ready yet
poll_ready_HidesFailure(inner) == IF inner = "Failed" THEN "Pending" ELSE inner
\* APQService::poll_ready: the inner service's answer, as it is
poll_ready(inner) == inner

(***************************************************************************)
(* The response model (response.rs). JSON values are written as their      *)
(* texts; Kind gives the variant of serde_json_bytes::Value a text parses  *)
(* to. A key that an object does not hold is Absent.                       *)
(***************************************************************************)
Absent == "absent"
VNull == "null"
VEmptyObject == "{}"
VObjectA == "{\"a\":1}"
VObjectK == "{\"k\":\"v\"}"
VStringPart == "\"part\""
VStringYes == "\"yes\""
VNumber == "7"
VEmptyArray == "[]"
VPathArray == "[\"hero\",1]"
VErrorsArray == "[{\"message\":\"boom\"}]"
VBadErrorsArray == "[7]"

Kind(v) ==
    CASE v = VNull -> "Null"
      [] v \in {"true", "false"} -> "Bool"
      [] v = VNumber -> "Number"
      [] v \in {VStringPart, VStringYes} -> "String"
      [] v \in {VEmptyArray, VPathArray, VErrorsArray, VBadErrorsArray} -> "Array"
      [] v \in {VEmptyObject, VObjectA, VObjectK} -> "Object"

\* Option<String>, Option<Path>, Option<bool>
NoneString == [some |-> FALSE, v |-> ""]
SomeString(str) == [some |-> TRUE, v |-> str]
NonePath == [some |-> FALSE, v |-> ""]
SomePath(path) == [some |-> TRUE, v |-> path]
NoneBool == [some |-> FALSE, v |-> FALSE]
SomeBool(b) == [some |-> TRUE, v |-> b]

\* the Path of the test, and an Error without path
PathHero == "hero/1"
ErrorBoom == [message |-> "boom", path |-> NonePath]

\* Value::String(s) => s.as_str().to_string()
StringOfValue(v) ==
    CASE v = VStringPart -> "part"
      [] v = VStringYes -> "yes"
ValueOfString(str) ==
    CASE str = "part" -> VStringPart
      [] str = "yes" -> VStringYes
\* Value::Bool(b) => b
BoolOfValue(v) == v = "true"
ValueOfBool(b) == IF b THEN "true" ELSE "false"
\* serde_json_bytes::from_value::<Path>: a sequence of keys and indices
PathOfValue(v) ==
    IF v = VPathArray THEN [ok |-> TRUE, some |-> TRUE, v |-> PathHero]
    ELSE IF v = VEmptyArray THEN [ok |-> TRUE, some |-> TRUE, v |-> ""]
    ELSE [ok |-> FALSE, some |-> FALSE, v |-> ""]
ValueOfPath(path) ==
    CASE path = PathHero -> VPathArray
      [] path = "" -> VEmptyArray
\* Error::from_value over the elements of the array
ErrorsOfValue(v) ==
    IF v = VErrorsArray THEN [ok |-> TRUE, errors |-> <<ErrorBoom>>]
    ELSE IF v = VEmptyArray THEN [ok |-> TRUE, errors |-> <<>>]
    ELSE [ok |-> FALSE, errors |-> <<>>]
ValueOfErrors(errors) ==
    CASE errors = <<ErrorBoom>> -> VErrorsArray
      [] errors = <<>> -> VEmptyArray

\* Response { label, data, path, has_next, errors, extensions }
NoResponse ==
    [label |-> NoneString, data |-> Absent, path |-> NonePath,
     has_next |-> NoneBool, errors |-> <<>>, extensions |-> Absent]
\* Response::builder().build(): the field defaults of the builder
DefaultResponse ==
    [label |-> NoneString, data |-> VEmptyObject, path |-> NonePath,
     has_next |-> NoneBool, errors |-> <<>>, extensions |-> VEmptyObject]
\* Value::default()
ValueDefault == VNull

\* the keys a body may hold: those of the wire schema and the snake-case
\* spelling of hasNext
BodyKeys == {"data", "errors", "extensions", "label", "path", "hasNext", "has_next"}
NoFields == [k \in BodyKeys |-> Absent]
\* bytes: a JSON object with its members, another JSON value, or no JSON
NoBody == [kind |-> "none", fields |-> NoFields]
ObjectBody(fields) == [kind |-> "object", fields |-> fields]
NonObjectBodies ==
    {[kind |-> k, fields |-> NoFields] : k \in {"array", "string", "invalid"}}
\* null members are left out for the typed keys
BodyFields ==
    [data : {Absent, VNull, VEmptyObject, VObjectA, VStringPart},
     errors : {Absent, VErrorsArray, VBadErrorsArray, VNumber},
     extensions : {Absent, VEmptyObject, VObjectK, VNumber},
     label : {Absent, VStringPart, VNumber},
     path : {Absent, VPathArray, "true"},
     hasNext : {Absent, "true", "false", VStringYes},
     has_next : {Absent, "true"}]
Bodies == {ObjectBody(f) : f \in BodyFields} \cup NonObjectBodies
Services == {"accounts", "products"}

NoParse ==
    [status |-> "none", error |-> "", service |-> "", reason |-> "",
     response |-> NoResponse]
ParseOk(response) ==
    [status |-> "Ok", error |-> "", service |-> "", reason |-> "",
     response |-> response]
\* FetchError::SubrequestMalformedResponse { service, reason }
SubrequestMalformedResponse(service, reason) ==
    [status |-> "Err", error |-> "SubrequestMalformedResponse",
     service |-> service, reason |-> reason, response |-> NoResponse]

\* ensure_object!(value)
ensure_object(b) == b.kind = "object"
\* extract_key_value_from_object!(object, key, pattern => var): the member
\* under key if it has the shape asked for, nothing if the key is not there
extract_key_value_from_object(object, key, kind) ==
    IF object[key] = Absent THEN [ok |-> TRUE, some |-> FALSE, v |-> Absent]
    ELSE IF Kind(object[key]) = kind THEN [ok |-> TRUE, some |-> TRUE, v |-> object[key]]
    ELSE [ok |-> FALSE, some |-> FALSE, v |-> Absent]
\* extract_key_value_from_object!(object, key): the member under key, any shape
extract_value_from_object(object, key) ==
    [some |-> object[key] # Absent, v |-> object[key]]

\* line 73, the data member
ExtractData(object) ==
    LET data == extract_value_from_object(object, "data")
    IN  IF data.some THEN data.v ELSE ValueDefault
\* mutant: the flag is read under the wire key
HasNextKey_CamelCase == "hasNext"
\* line 103: the key from_bytes reads has_next from
HasNextKey == "has_next"

\* Response::from_bytes(service_name, b)
from_bytes(service_name, b) ==
    IF b.kind = "invalid"
    THEN SubrequestMalformedResponse(service_name, "not json")
    ELSE IF ~ensure_object(b)
    THEN SubrequestMalformedResponse(service_name, "expected an object")
    ELSE
    LET object == b.fields
        data == ExtractData(object)
        errors == extract_key_value_from_object(object, "errors", "Array")
        errorList == IF errors.some THEN ErrorsOfValue(errors.v)
                     ELSE [ok |-> TRUE, errors |-> <<>>]
        extensions == extract_key_value_from_object(object, "extensions", "Object")
        label == extract_key_value_from_object(object, "label", "String")
        pathValue == extract_value_from_object(object, "path")
        path == IF pathValue.some THEN PathOfValue(pathValue.v)
                ELSE [ok |-> TRUE, some |-> FALSE, v |-> ""]
        has_next == extract_key_value_from_object(object, HasNextKey, "Bool")
    IN  IF ~errors.ok THEN SubrequestMalformedResponse(service_name, "errors")
        ELSE IF ~errorList.ok THEN SubrequestMalformedResponse(service_name, "error")
        ELSE IF ~extensions.ok THEN SubrequestMalformedResponse(service_name, "extensions")
        ELSE IF ~label.ok THEN SubrequestMalformedResponse(service_name, "label")
        ELSE IF ~path.ok THEN SubrequestMalformedResponse(service_name, "path")
        ELSE IF ~has_next.ok THEN SubrequestMalformedResponse(service_name, "has_next")
        ELSE ParseOk(
            [label |-> IF label.some THEN SomeString(StringOfValue(label.v))
                       ELSE NoneString,
             data |-> data,
             path |-> IF path.some THEN SomePath(path.v) ELSE NonePath,
             has_next |-> IF has_next.some THEN SomeBool(BoolOfValue(has_next.v))
                          ELSE NoneBool,
             errors |-> errorList.errors,
             extensions |-> IF extensions.some THEN extensions.v ELSE VEmptyObject])

\* the derived Deserialize of Response on a JSON object: members under the
\* camel-case names, every field defaulted when its member is missing,
\* other members ignored
Deserialize(b) ==
    LET object == b.fields
        typed(key, kind) ==
            IF object[key] \in {Absent, VNull} /\ kind \in {"String", "Bool", "Path"}
            THEN [ok |-> TRUE, some |-> FALSE, v |-> Absent]
            ELSE IF object[key] = Absent THEN [ok |-> TRUE, some |-> FALSE, v |-> Absent]
            ELSE IF kind = "Path" THEN PathOfValue(object[key])
            ELSE IF Kind(object[key]) = kind
            THEN [ok |-> TRUE, some |-> TRUE, v |-> object[key]]
            ELSE [ok |-> FALSE, some |-> FALSE, v |-> Absent]
        label == typed("label", "String")
        path == typed("path", "Path")
        has_next == typed("hasNext", "Bool")
        errors == typed("errors", "Array")
        errorList == IF errors.some THEN ErrorsOfValue(errors.v)
                     ELSE [ok |-> TRUE, errors |-> <<>>]
        extensions == typed("extensions", "Object")
    IN  IF ~(label.ok /\ path.ok /\ has_next.ok /\ errors.ok /\ errorList.ok
                /\ extensions.ok)
        THEN [status |-> "Err", error |-> "serde_json::Error", service |-> "",
              reason |-> "invalid type", response |-> NoResponse]
        ELSE ParseOk(
            [label |-> IF label.some THEN SomeString(StringOfValue(label.v))
                       ELSE NoneString,
             data |-> IF object["data"] = Absent THEN ValueDefault ELSE object["data"],
             path |-> IF path.some THEN SomePath(path.v) ELSE NonePath,
             has_next |-> IF has_next.some THEN SomeBool(BoolOfValue(has_next.v))
                          ELSE NoneBool,
             errors |-> errorList.errors,
             extensions |-> IF extensions.some THEN extensions.v ELSE VEmptyObject])

\* mutant: only the empty object is skipped
skip_data_if_ObjectOnly(value) == value = VEmptyObject
\* skip_data_if: the empty object and null are not serialized
skip_data_if(value) ==
    CASE Kind(value) = "Object" -> value = VEmptyObject
      [] Kind(value) = "Null" -> TRUE
      [] OTHER -> FALSE

\* the members a serialized Response may hold
WireKeys == {"label", "data", "path", "hasNext", "errors", "extensions"}
NoWire == [kind |-> "none", fields |-> NoFields]
\* the derived Serialize of Response: camel-case names, skip_serializing_if
Serialize(response) ==
    ObjectBody(
        [k \in BodyKeys |->
            CASE k = "label" ->
                    IF ~response.label.some THEN Absent
                    ELSE ValueOfString(response.label.v)
              [] k = "data" ->
                    IF skip_data_if(response.data) THEN Absent ELSE response.data
              [] k = "path" ->
                    IF ~response.path.some THEN Absent
                    ELSE ValueOfPath(response.path.v)
              [] k = "hasNext" ->
                    IF ~response.has_next.some THEN Absent
                    ELSE ValueOfBool(response.has_next.v)
              [] k = "errors" ->
                    IF response.errors = <<>> THEN Absent
                    ELSE ValueOfErrors(response.errors)
              [] k = "extensions" ->
                    IF response.extensions = VEmptyObject THEN Absent
                    ELSE response.extensions
              [] OTHER -> Absent])

\* the responses a stage may build: Response::builder() with any of its setters
BuiltResponses ==
    [label : {NoneString, SomeString("part")},
     data : {VNull, VEmptyObject, VObjectA, VStringPart},
     path : {NonePath, SomePath(PathHero)},
     has_next : {NoneBool, SomeBool(TRUE), SomeBool(FALSE)},
     errors : {<<>>, <<ErrorBoom>>},
     extensions : {VEmptyObject, VObjectK}]

\* an Error that carries a path
ErrorHere == [message |-> "Something terrible happened!", path |-> SomePath("here")]
\* the errors handed to append_errors
MaxNewErrors == 2
NewErrors == UNION {[1..n -> {ErrorBoom, ErrorHere}] : n \in 0..MaxNewErrors}

\* mutant: only a response without label is primary
is_primary_NoLabel(r) == ~r.label.some
\* Response::is_primary
is_primary(r) == ~r.path.some

\* mutant: an error without path gets the path of the response
append_errors_DefaultsPath(r, errors) ==
    [response |->
        [r EXCEPT !.errors =
            @ \o [i \in 1..Len(errors) |->
                    IF errors[i].path.some THEN errors[i]
                    ELSE [errors[i] EXCEPT !.path = r.path]]],
     errors |-> <<>>]
\* Response::append_errors: Vec::append moves the elements of errors to the
\* end of self.errors and leaves errors empty
append_errors(r, errors) ==
    [response |-> [r EXCEPT !.errors = @ \o errors],
     errors |-> <<>>]

NoPrimary == [asked |-> FALSE, v |-> FALSE]
NoAppend ==
    [done |-> FALSE, before |-> NoResponse, new |-> <<>>,
     after |-> NoResponse, rest |-> <<>>]

(***************************************************************************)
(* The Apollo metrics configurator (metrics/apollo.rs): Config::apply and  *)
(* its process-wide flag.                                                  *)
(***************************************************************************)
\* the threads that may be inside Config::apply
NumApplies == 2
ApplyIds == 1..NumApplies
ApplyIdle ==
    [pc |-> "idle", complete |-> FALSE, before |-> FALSE, old |-> FALSE,
     logged |-> FALSE]
\* the complete applies whose swap came after the last swap of an incomplete
\* one, and how many of them found the flag false
NoApplies == [complete |-> 0, first |-> 0]
\* the complete applies followed between two resets of the flag
MaxApplies == 3

\* mutant: the notice is logged whatever the flag was
apply_complete_AlwaysLogs(flag) == [flag |-> TRUE, old |-> flag, log |-> TRUE]
\* lines 38-40: if !ENABLED.swap(true, Relaxed) { info!(..) }
apply_complete(flag) == [flag |-> TRUE, old |-> flag, log |-> ~flag]
\* lines 47-50: ENABLED.swap(false, Relaxed)
apply_incomplete(flag) == [flag |-> FALSE, old |-> flag, log |-> FALSE]

(***************************************************************************)
(* State.                                                                  *)
(*   cache       the cache shared by every service the layer produced      *)
(*   innerReady  what the inner service's poll_ready currently answers     *)
(*   cur         the request of the observed caller, which follows the     *)
(*               tower protocol: poll_ready until Ready, call, then await  *)
(*               or drop the returned future                               *)
(* History variables, kept by SpecHistory:                                 *)
(*   presented   queries Q for which a request carrying                    *)
(*               {hash: SHA256(Q), query: Q} has been processed            *)
(*   mismatched  digests H for which a request carrying {hash: H,          *)
(*               query: Q'} with Q' not empty and SHA256(Q') # H has been  *)
(*               processed, and none carrying H with its own non-empty     *)
(*               query                                                     *)
(*   e2e         how far the calls made so far follow the three requests   *)
(*               of the it_works test (-1: they do not)                    *)
(* Kept by SpecConcurrent:                                                 *)
(*   tasks       the requests of callers that run concurrently, each on    *)
(*               its own service of the layer, all on the one cache        *)
(* Kept by SpecResponse:                                                   *)
(*   service     the name of the subgraph the body came from               *)
(*   body        the bytes handed to Response::from_bytes                  *)
(*   response    a Response built by a stage                               *)
(*   parsed      what Response::from_bytes made of body                    *)
(*   derived     what the derived deserializer made of body                *)
(*   wire        the serialization of response                             *)
(*   primary     what is_primary answered for response                     *)
(*   appended    a call of append_errors on a clone of response: the       *)
(*               response before, the errors handed over, the response     *)
(*               and the handed vector after                               *)
(* Kept by SpecTelemetry:                                                  *)
(*   enabled     the static ENABLED of Config::apply                       *)
(*   applies     the calls of Config::apply in progress, one per thread    *)
(*   sinceReset  history: the complete applies since the flag was last     *)
(*               reset                                                     *)
(***************************************************************************)
VARIABLES cache, innerReady, cur, presented, mismatched, e2e, tasks,
          service, body, response, parsed, derived, wire,
          primary, appended, enabled, applies, sinceReset

apqVars == <<cache, innerReady, cur, presented, mismatched, e2e, tasks>>
responseVars == <<service, body, response, parsed, derived, wire>>
methodVars == <<primary, appended>>
telemetryVars == <<enabled, applies, sinceReset>>
\* the variables the actions of the APQ stage with one observed caller leave alone
sideVars == <<tasks, responseVars, methodVars, telemetryVars>>

vars == <<cache, innerReady, cur, presented, mismatched, e2e, sideVars>>

Readiness == {"Ready", "Pending", "Failed"}

\* what held of a request's digest when the request was processed
NoBefore == [presented |-> FALSE, verified |-> FALSE, mismatched |-> FALSE, cached |-> FALSE]

Idle ==
    [pc |-> "idle", req |-> NoRequest, poll |-> "none",
     before |-> NoBefore, changed |-> FALSE,
     outcome |-> "none", fwd |-> NoRequest, res |-> NoResult,
     inner |-> 0, ops |-> 0,
     innerResult |-> NoResult, delivered |-> NoResult]

\* the concurrent callers
NumTasks == 2
TaskIds == 1..NumTasks

\* APQ::with_capacity / APQService::new: an empty cache, nothing in flight
Init ==
    /\ cache = EmptyCache
    /\ innerReady \in Readiness
    /\ cur = Idle
    /\ presented = {}
    /\ mismatched = {}
    /\ e2e = 0
    /\ tasks = [t \in TaskIds |-> Idle]
    /\ service = ""
    /\ body = NoBody
    /\ response = NoResponse
    /\ parsed = NoParse
    /\ derived = NoParse
    /\ wire = NoWire
    /\ primary = NoPrimary
    /\ appended = NoAppend
    /\ enabled = FALSE
    /\ applies = [a \in ApplyIds |-> ApplyIdle]
    /\ sinceReset = NoApplies

IsHashOnly(req) == MaybeQueryHash(req).some /\ req.query = ""
HasLiteralQuery(req) == MaybeQueryHash(req).some /\ req.query # ""
IsVerified(req) == HasLiteralQuery(req) /\ query_matches_hash(req.query, MaybeQueryHash(req).bytes)
IsMismatch(req) == HasLiteralQuery(req) /\ ~query_matches_hash(req.query, MaybeQueryHash(req).bytes)
HashOf(req) == MaybeQueryHash(req).bytes

\* the caller gets a request to send
Submit(req) ==
    /\ cur.pc \in {"idle", "done", "dropped", "failed"}
    /\ cur' = [Idle EXCEPT !.pc = "wait", !.req = req]
    /\ UNCHANGED <<cache, innerReady, presented, mismatched, e2e, sideVars>>

\* services.ready(): APQService::poll_ready
PollReady ==
    /\ cur.pc = "wait"
    /\ LET r == poll_ready(innerReady)
       IN  cur' = [cur EXCEPT !.poll = r,
                              !.pc = CASE r = "Ready" -> "ready"
                                       [] r = "Pending" -> "wait"
                                       [] r = "Failed" -> "failed"]
    /\ UNCHANGED <<cache, innerReady, presented, mismatched, e2e, sideVars>>

Before(req) ==
    LET h == MaybeQueryHash(req)
    IN  [presented |-> h.some /\ \E q \in presented : Sha256(q) = h.bytes,
         verified |-> h.some /\ \E q \in presented : q # "" /\ Sha256(q) = h.bytes,
         mismatched |-> h.some /\ h.bytes \in mismatched,
         cached |-> h.some /\ CacheContains(cache, h.bytes)]

\* cur after APQService::call(req) returned its future, r being call(req, cache)
Called(req, r) ==
    [Idle EXCEPT !.pc = "called", !.req = req, !.poll = "Ready",
                 !.before = Before(req), !.changed = (r.cache # cache),
                 !.outcome = r.outcome, !.fwd = r.fwd, !.res = r.res,
                 !.inner = r.inner, !.ops = r.ops]

\* services.call(req): APQService::call, up to the future it returns
Call ==
    /\ cur.pc = "ready"
    /\ LET r == call(cur.req, cache)
       IN  /\ cache' = r.cache
           /\ cur' = Called(cur.req, r)
    /\ UNCHANGED <<innerReady, presented, mismatched, e2e, sideVars>>

\* the returned future is awaited: Box::pin(async { Ok(res) }) yields the
\* local response, Box::pin(self.service.call(req)) what the inner future yields
Complete ==
    /\ cur.pc = "called"
    /\ \/ /\ cur.outcome = "synthesized"
          /\ cur' = [cur EXCEPT !.pc = "done", !.delivered = cur.res]
       \/ /\ cur.outcome = "forwarded"
          /\ \E r \in {InnerOk(cur.fwd), InnerErr} :
                cur' = [cur EXCEPT !.pc = "done", !.innerResult = r, !.delivered = r]
    /\ UNCHANGED <<cache, innerReady, presented, mismatched, e2e, sideVars>>

\* the returned future is dropped before it completes
Drop ==
    /\ cur.pc = "called"
    /\ cur' = [cur EXCEPT !.pc = "dropped"]
    /\ UNCHANGED <<cache, innerReady, presented, mismatched, e2e, sideVars>>

\* requests with a decodable descriptor or none, one context
SharedRequests ==
    [context : {"ctx1"},
     persistedQuery : {PQNone, PQ(HexTypename), PQ(HexMe), PQ(HexHello), PQ(HexEmpty),
                       PQ(HexWrong)},
     query : Queries]

\* a request handled meanwhile by another service of the same layer
\* (Layer::layer clones the APQ, the clones share the cache)
ConcurrentCall(req) ==
    /\ cache' = call(req, cache).cache
    /\ UNCHANGED <<innerReady, cur, presented, mismatched, e2e, sideVars>>

\* mutant: the housekeeping also evicts from a cache that is just full
Housekeeping_Eager ==
    /\ Cardinality(DOMAIN cache) >= Capacity
    /\ \E k \in DOMAIN cache : cache' = CacheRemove(cache, k)
    /\ UNCHANGED <<innerReady, cur, presented, mismatched, e2e, sideVars>>

\* moka's eviction: Cache::new(capacity) bounds the entry count; entries
\* over the bound are removed by the cache's own housekeeping, after the
\* insert returned, and the cache chooses the victim
Housekeeping ==
    /\ Cardinality(DOMAIN cache) > Capacity
    /\ \E k \in DOMAIN cache : cache' = CacheRemove(cache, k)
    /\ UNCHANGED <<innerReady, cur, presented, mismatched, e2e, sideVars>>

\* the inner service's readiness changes; once it answered Ready it stays
\* ready until the call (tower's Service contract)
InnerChange ==
    /\ cur.pc # "ready"
    /\ \E r \in Readiness \ {innerReady} : innerReady' = r
    /\ UNCHANGED <<cache, cur, presented, mismatched, e2e, sideVars>>

Next ==
    \/ \E req \in Requests : Submit(req)
    \/ PollReady
    \/ Call
    \/ Complete
    \/ Drop
    \/ \E req \in SharedRequests : ConcurrentCall(req)
    \/ Housekeeping
    \/ InnerChange

Spec == Init /\ [][Next]_vars

(***************************************************************************)
(* The stage with its history: requests are handled one after the other    *)
(* (ready, then call, as the tests do) and the history variables record    *)
(* what was processed.                                                     *)
(***************************************************************************)
E2EStep(step, req) ==
    IF step = 0 /\ req.persistedQuery = PQ(HexTypename) /\ req.query = "" THEN 1
    ELSE IF step = 1 /\ req.persistedQuery = PQ(HexTypename) /\ req.query = QTypename THEN 2
    ELSE IF step = 2 /\ req.persistedQuery = PQ(HexTypename) /\ req.query = "" THEN 3
    ELSE -1

Process(req) ==
    /\ LET r == call(req, cache)
       IN  /\ cache' = r.cache
           /\ cur' = Called(req, r)
    /\ presented' = presented \cup
          (IF MaybeQueryHash(req).some /\ query_matches_hash(req.query, HashOf(req))
           THEN {req.query} ELSE {})
    /\ mismatched' =
          (mismatched \cup (IF IsMismatch(req) THEN {HashOf(req)} ELSE {}))
              \ {Sha256(q) : q \in presented' \ {""}}
    /\ e2e' = E2EStep(e2e, req)
    /\ UNCHANGED <<innerReady, sideVars>>

NextHistory ==
    \/ \E req \in SharedRequests : Process(req)
    \/ Housekeeping

SpecHistory == Init /\ [][NextHistory]_vars

(***************************************************************************)
(* Concurrent callers. Layer::layer gives each caller a service holding a  *)
(* clone of the APQ, and the clones share the cache. APQService::call      *)
(* makes at most one cache operation (insert or get), which the cache      *)
(* performs atomically, and everything else it does is local to the call;  *)
(* so calls of different services interleave at their cache operation and  *)
(* a call is one step. The futures the calls return are then in flight     *)
(* together, and each is awaited or dropped by its caller.                 *)
(***************************************************************************)
TaskRequests ==
    {r \in [context : Contexts,
            persistedQuery : {PQ(HexTypename), PQ(HexTypenameUpper), PQ(HexMe)},
            query : {"", QTypename, QMe}] :
        r.context = "ctx2" => (r.query = "" /\ r.persistedQuery # PQ(HexTypenameUpper))}

\* mutant: dropping the returned future undoes the insert its call made
OnDrop_Rollback(c, task) ==
    IF task.changed THEN CacheRemove(c, HashOf(task.req)) ELSE c
\* the cache after the future of a call is dropped: the future holds the
\* inner future or the built response and nothing of the cache
OnDrop(c, task) == c

\* service t is called with req
TaskCall(t, req) ==
    /\ tasks[t].pc = "idle"
    /\ LET r == call(req, cache)
       IN  /\ cache' = r.cache
           /\ tasks' = [tasks EXCEPT ![t] = Called(req, r)]
    /\ presented' = presented \cup (IF IsVerified(req) THEN {req.query} ELSE {})
    /\ UNCHANGED <<innerReady, cur, mismatched, e2e, responseVars, methodVars, telemetryVars>>

\* the future service t returned is awaited
TaskComplete(t) ==
    /\ tasks[t].pc = "called"
    /\ \/ /\ tasks[t].outcome = "synthesized"
          /\ tasks' = [tasks EXCEPT ![t].pc = "done", ![t].delivered = tasks[t].res]
       \/ /\ tasks[t].outcome = "forwarded"
          /\ \E r \in {InnerOk(tasks[t].fwd), InnerErr} :
                tasks' = [tasks EXCEPT ![t].pc = "done", ![t].innerResult = r,
                                       ![t].delivered = r]
    /\ UNCHANGED <<cache, innerReady, cur, presented, mismatched, e2e, responseVars, methodVars, telemetryVars>>

\* the future service t returned is dropped before it completes
TaskDrop(t) ==
    /\ tasks[t].pc = "called"
    /\ tasks' = [tasks EXCEPT ![t].pc = "dropped"]
    /\ cache' = OnDrop(cache, tasks[t])
    /\ UNCHANGED <<innerReady, cur, presented, mismatched, e2e, responseVars, methodVars, telemetryVars>>

NextConcurrent ==
    \/ \E t \in TaskIds, req \in TaskRequests : TaskCall(t, req)
    \/ \E t \in TaskIds : TaskComplete(t)
    \/ \E t \in TaskIds : TaskDrop(t)
    \/ Housekeeping

SpecConcurrent == Init /\ [][NextConcurrent]_vars

(***************************************************************************)
(* Responses. A subgraph's bytes are parsed by Response::from_bytes (and,  *)
(* in the tests, by the derived deserializer); a Response built by a stage *)
(* is serialized, and its serialization may come back as a body.           *)
(***************************************************************************)
\* a subgraph fetch returned bytes b for service s
Receive ==
    /\ body = NoBody /\ response = NoResponse
    /\ \E s \in Services, b \in Bodies :
          /\ service' = s
          /\ body' = b
    /\ UNCHANGED <<apqVars, methodVars, telemetryVars, response, parsed, derived, wire>>

\* Response::from_bytes(service, body)
FromBytes ==
    /\ body # NoBody /\ parsed = NoParse
    /\ parsed' = from_bytes(service, body)
    /\ UNCHANGED <<apqVars, methodVars, telemetryVars, service, body, response, derived, wire>>

\* serde_json::from_str::<Response>(body)
FromStr ==
    /\ body.kind = "object" /\ derived = NoParse
    /\ derived' = Deserialize(body)
    /\ UNCHANGED <<apqVars, methodVars, telemetryVars, service, body, response, parsed, wire>>

\* Response::builder()...build()
Build ==
    /\ body = NoBody /\ response = NoResponse
    /\ \E r \in BuiltResponses : response' = r
    /\ UNCHANGED <<apqVars, methodVars, telemetryVars, service, body, parsed, derived, wire>>

\* serde_json::to_string(&response)
SerializeResponse ==
    /\ response # NoResponse /\ wire = NoWire
    /\ wire' = Serialize(response)
    /\ UNCHANGED <<apqVars, methodVars, telemetryVars, service, body, response, parsed, derived>>

\* the serialized response is what service s answers
SendBack ==
    /\ wire # NoWire /\ body = NoBody
    /\ \E s \in Services : service' = s
    /\ body' = wire
    /\ UNCHANGED <<apqVars, methodVars, telemetryVars, response, parsed, derived, wire>>

\* response.is_primary()
IsPrimary ==
    /\ response # NoResponse /\ ~primary.asked
    /\ primary' = [asked |-> TRUE, v |-> is_primary(response)]
    /\ UNCHANGED <<apqVars, responseVars, appended, telemetryVars>>

\* response.clone().append_errors(&mut errors)
AppendErrors ==
    /\ response # NoResponse /\ ~appended.done
    /\ \E errors \in NewErrors :
          LET r == append_errors(response, errors)
          IN  appended' = [done |-> TRUE, before |-> response, new |-> errors,
                           after |-> r.response, rest |-> r.errors]
    /\ UNCHANGED <<apqVars, responseVars, primary, telemetryVars>>

NextResponse ==
    \/ IsPrimary
    \/ AppendErrors
    \/ Receive
    \/ FromBytes
    \/ FromStr
    \/ Build
    \/ SerializeResponse
    \/ SendBack

SpecResponse == Init /\ [][NextResponse]_vars

(***************************************************************************)
(* Config::apply, called from any thread. The swap of ENABLED is one       *)
(* atomic step; the notice, if the swap returned false, is logged after    *)
(* it; then the exporter is built, which may fail.                         *)
(***************************************************************************)
\* thread a enters apply with a config that has endpoint, key and graph ref
\* (complete) or lacks one of them
ApplyStart(a, complete) ==
    /\ applies[a].pc \in {"idle", "done"}
    /\ applies' = [applies EXCEPT ![a] = [ApplyIdle EXCEPT !.pc = "swap",
                                                          !.complete = complete]]
    /\ UNCHANGED <<apqVars, responseVars, methodVars, enabled, sinceReset>>

\* ENABLED.swap(..)
ApplySwap(a) ==
    /\ applies[a].pc = "swap"
    /\ applies[a].complete => sinceReset.complete < MaxApplies
    /\ LET r == IF applies[a].complete THEN apply_complete(enabled)
                ELSE apply_incomplete(enabled)
       IN  /\ enabled' = r.flag
           /\ applies' = [applies EXCEPT ![a].pc = IF r.log THEN "log" ELSE "return",
                                          ![a].before = enabled,
                                          ![a].old = r.old]
           /\ sinceReset' =
                 IF applies[a].complete
                 THEN [complete |-> sinceReset.complete + 1,
                       first |-> sinceReset.first + (IF r.log THEN 1 ELSE 0)]
                 ELSE NoApplies
    /\ UNCHANGED <<apqVars, responseVars, methodVars>>

\* tracing::info!("Apollo Studio usage reporting is enabled. ..")
ApplyLog(a) ==
    /\ applies[a].pc = "log"
    /\ applies' = [applies EXCEPT ![a].pc = "return", ![a].logged = TRUE]
    /\ UNCHANGED <<apqVars, responseVars, methodVars, enabled, sinceReset>>

\* apply returns: Ok(builder), or the error of ApolloExporter::new
ApplyReturn(a) ==
    /\ applies[a].pc = "return"
    /\ applies' = [applies EXCEPT ![a].pc = "done"]
    /\ UNCHANGED <<apqVars, responseVars, methodVars, enabled, sinceReset>>

NextTelemetry ==
    \/ \E a \in ApplyIds, complete \in BOOLEAN : ApplyStart(a, complete)
    \/ \E a \in ApplyIds : ApplySwap(a)
    \/ \E a \in ApplyIds : ApplyLog(a)
    \/ \E a \in ApplyIds : ApplyReturn(a)

SpecTelemetry == Init /\ [][NextTelemetry]_vars

(***************************************************************************)
(* Claims.                                                                 *)
(***************************************************************************)
Processed == cur.pc \in {"called", "done", "dropped"}
\* the query whose digest the request's descriptor names
QueryOfHash(req) == CHOOSE q \in Queries : Sha256(q) = HashOf(req)

\* C1 as stated: once a request carrying {hash: SHA256(Q), query: Q} has been
\* processed, for any text Q, a later request carrying that hash and an empty
\* query is forwarded to the inner service with its query rewritten to Q.
C1_AnyQueryAlwaysHit ==
    (Processed /\ IsHashOnly(cur.req) /\ cur.before.presented)
        => /\ cur.outcome = "forwarded"
           /\ cur.fwd.query = QueryOfHash(cur.req)

\* C1 amended: once a request carrying {hash: SHA256(Q), query: Q} with Q not
\* empty has been processed, a later hash-only request for that hash, processed
\* while the bounded cache still holds the entry, is forwarded to the inner
\* service, once, with its query rewritten to Q and nothing else changed.
C1_VerifiedThenHit ==
    (Processed /\ IsHashOnly(cur.req) /\ cur.before.verified /\ cur.before.cached)
        => /\ cur.outcome = "forwarded"
           /\ cur.inner = 1
           /\ cur.fwd = [cur.req EXCEPT !.query = QueryOfHash(cur.req)]
           /\ cur.fwd.query # ""

C1_Witness ==
    /\ Processed /\ IsHashOnly(cur.req) /\ cur.before.verified /\ cur.before.cached
    /\ cur.fwd.query = QMe

\* the error the tests expect on a miss
expected_apq_miss_error ==
    [message |-> "PersistedQueryNotFound",
     locations |-> <<>>,
     path |-> "None",
     extensions |->
        [code |-> "PERSISTED_QUERY_NOT_FOUND",
         exception |->
            [stacktrace |-> <<"PersistedQueryNotFoundError: PersistedQueryNotFound">>]]]

\* C2: a hash-only request whose digest was never carried by a verified
\* request (non-empty query with that digest) is answered locally: no inner
\* call, and a response holding exactly the one PersistedQueryNotFound error,
\* whatever was processed before.
C2_MissShortCircuits ==
    (Processed /\ IsHashOnly(cur.req) /\ ~cur.before.verified)
        => /\ cur.outcome = "synthesized"
           /\ cur.inner = 0
           /\ cur.fwd = NoRequest
           /\ cur.res.status = "Ok"
           /\ cur.res.errors = <<expected_apq_miss_error>>

C2_Witness ==
    /\ Processed /\ IsHashOnly(cur.req) /\ ~cur.before.verified
    /\ cur.outcome = "synthesized"
    /\ Cardinality(presented) >= 2
    /\ mismatched # {}

\* C3: a request carrying {hash: H, query: Q'} with SHA256(Q') # H leaves the
\* cache as it is, and a hash-only request for H processed later, no verified
\* request for H having been processed, gets the miss response.
C3_MismatchKeepsMiss ==
    /\ (Processed /\ IsMismatch(cur.req)) => ~cur.changed
    /\ (Processed /\ IsHashOnly(cur.req) /\ cur.before.mismatched)
           => /\ cur.outcome = "synthesized"
              /\ cur.res.errors = <<expected_apq_miss_error>>

C3_Witness ==
    /\ Processed /\ IsHashOnly(cur.req) /\ cur.before.mismatched
    /\ HashOf(cur.req) = DigestTypename
    /\ cur.outcome = "synthesized"
    /\ cache # EmptyCache

\* C4: every entry of the cache holds a text under the SHA-256 digest of
\* that text.
C4_CacheIntegrity == \A k \in DOMAIN cache : Sha256(cache[k]) = k

C4_Witness == Cardinality(DOMAIN cache) >= 2 /\ Processed /\ IsMismatch(cur.req)

\* C5: on a fresh stage, (1) the hash-only request for SHA256("{__typename}")
\* gets the miss error and no inner call; (2) the request with that hash and
\* the query is forwarded and the cache then holds the query under the hash;
\* (3) the hash-only request is forwarded with query "{__typename}".
C5_EndToEnd ==
    /\ e2e = 1 => /\ cur.outcome = "synthesized"
                  /\ cur.inner = 0
                  /\ cur.res.errors = <<expected_apq_miss_error>>
    /\ e2e = 2 => /\ cur.outcome = "forwarded"
                  /\ cur.fwd = cur.req
                  /\ CacheContains(cache, DigestTypename)
                  /\ CacheGet(cache, DigestTypename) = QTypename
    /\ e2e = 3 => /\ cur.outcome = "forwarded"
                  /\ cur.inner = 1
                  /\ cur.fwd = [cur.req EXCEPT !.query = QTypename]

C5_Witness == e2e = 3 /\ cur.req.query = "" /\ cur.fwd.query = QTypename

\* C6: a call either forwards the request to the inner service exactly once
\* and its future yields what the inner future yields, or builds a response
\* itself, calls the inner service not at all and its future yields that
\* response; one or the other, with at most one cache operation.
C6_ForwardXorSynthesize ==
    Processed =>
        /\ cur.ops <= 1
        /\ \/ /\ cur.outcome = "forwarded"
              /\ cur.inner = 1
              /\ cur.fwd # NoRequest
              /\ cur.res = NoResult
              /\ cur.pc = "done" => /\ cur.innerResult # NoResult
                                    /\ cur.delivered = cur.innerResult
           \/ /\ cur.outcome = "synthesized"
              /\ cur.inner = 0
              /\ cur.fwd = NoRequest
              /\ cur.res # NoResult
              /\ cur.pc = "done" => /\ cur.innerResult = NoResult
                                    /\ cur.delivered = cur.res

C6_Witness ==
    /\ cur.pc = "done" /\ IsHashOnly(cur.req)
    /\ cur.outcome = "forwarded" /\ cur.delivered = InnerErr

\* a hash-only request that the stage would answer itself
WouldMiss(req) == IsHashOnly(req) /\ ~CacheContains(cache, HashOf(req))

\* C7 as stated: a caller that checks poll_ready before call is not held
\* back by a not-ready inner service when its request is one the stage
\* answers itself.
C7_MissNeverHeldBack ==
    ~(cur.pc = "wait" /\ cur.poll = "Pending" /\ innerReady = "Pending" /\ WouldMiss(cur.req))

\* C7 amended: the miss response is built in call without an inner call and
\* whatever the inner service's readiness is by then; but the stage admits a
\* caller only when the inner service is ready, so a caller that checks
\* poll_ready before call is held back while the inner service is not ready.
C7_MissBypassesInnerCallOnly ==
    /\ cur.pc = "ready" => innerReady = "Ready"
    /\ (Processed /\ cur.outcome = "synthesized")
           => /\ cur.inner = 0
              /\ cur.poll = "Ready"
              /\ cur.pc = "done" => cur.delivered = cur.res

C7_Witness ==
    /\ cur.pc = "done" /\ cur.outcome = "synthesized"
    /\ cur.delivered.errors = <<expected_apq_miss_error>>
    /\ innerReady = "Pending"

\* C8: a request with a decodable descriptor and a non-empty query is
\* forwarded to the inner service as it is, whether or not the digest matches
\* and whatever the cache holds; it never gets the miss response.
C8_LiteralQueryForwarded ==
    (Processed /\ HasLiteralQuery(cur.req))
        => /\ cur.outcome = "forwarded"
           /\ cur.fwd = cur.req
           /\ cur.inner = 1
           /\ cur.res = NoResult

C8_Witness ==
    /\ Processed /\ IsMismatch(cur.req) /\ cur.before.cached
    /\ cur.fwd.query = QHello

\* the extension values the stage cannot turn into a digest
UnusableExtValues ==
    {PQNone, PQString,
     PQObject(JAbsent, JStr(HexTypename)),
     PQObject(JNum(256), JStr(HexTypename)),
     PQObject(JNum(1), JNum(7)),
     PQ(HexNotHex), PQ(HexOddLength)}

\* C9: a request without persistedQuery extension, with one that is not a
\* {version, sha256Hash} descriptor or with a sha256Hash that is not hex is
\* forwarded as it is, empty query included; the stage makes no cache
\* operation for it and the cache stays as it is.
C9_NoDescriptorForwarded ==
    (Processed /\ cur.req.persistedQuery \in UnusableExtValues)
        => /\ cur.outcome = "forwarded"
           /\ cur.fwd = cur.req
           /\ cur.inner = 1
           /\ cur.ops = 0
           /\ ~cur.changed

C9_Witness ==
    /\ Processed /\ cur.req.persistedQuery = PQObject(JNum(256), JStr(HexTypename))
    /\ cur.req.query = ""
    /\ CacheContains(cache, DigestTypename)

\* C10: the response the stage builds on a miss carries the context of the
\* request, with the request as received attached to it.
C10_MissKeepsContext ==
    (Processed /\ cur.outcome = "synthesized")
        => /\ cur.res.status = "Ok"
           /\ cur.res.context.ctx = cur.req.context
           /\ cur.res.context.request = HttpRequest(cur.req)
           /\ cur.pc = "done" => cur.delivered.context = cur.res.context

C10_Witness ==
    /\ cur.pc = "done" /\ cur.outcome = "synthesized"
    /\ cur.delivered.context.ctx = "ctx2"
    /\ cur.delivered.context.request.persistedQuery = PQ(HexTypenameUpper)

\* C11: the request that reaches the inner service keeps the context and the
\* persistedQuery extension of the request received; its query differs from
\* the one received only for a hash-only request whose digest was in the
\* cache, and then it is the cached text.
C11_ForwardKeepsContextAndExtension ==
    (Processed /\ cur.outcome = "forwarded")
        => /\ cur.fwd.context = cur.req.context
           /\ cur.fwd.persistedQuery = cur.req.persistedQuery
           /\ IF IsHashOnly(cur.req) /\ cur.before.cached
              THEN cur.fwd.query = QueryOfHash(cur.req)
              ELSE cur.fwd.query = cur.req.query

C11_Witness ==
    /\ Processed /\ cur.outcome = "forwarded"
    /\ cur.req.context = "ctx2" /\ cur.req.persistedQuery = PQ(HexTypenameUpper)
    /\ cur.req.query = "" /\ cur.fwd.query = QTypename
    /\ cur.fwd.persistedQuery = PQ(HexTypenameUpper)

\* C12: every hash-only request processed while no verified request for its
\* digest has been processed gets the miss response, however many such
\* requests are in flight together: each call builds its own response, with
\* the caller's own context, makes no inner call, and its future yields that
\* response as soon as it is awaited.
C12_ConcurrentMisses ==
    \A t \in TaskIds :
        (tasks[t].pc # "idle" /\ IsHashOnly(tasks[t].req) /\ ~tasks[t].before.verified)
            => /\ tasks[t].outcome = "synthesized"
               /\ tasks[t].inner = 0
               /\ tasks[t].fwd = NoRequest
               /\ tasks[t].res =
                      BuildMissResponse(with_request(tasks[t].req.context,
                                                     HttpRequest(tasks[t].req)))
               /\ tasks[t].res.errors = <<expected_apq_miss_error>>
               /\ tasks[t].pc = "called" => ENABLED TaskComplete(t)
               /\ tasks[t].pc = "done" => tasks[t].delivered = tasks[t].res

\* two hash-only requests for one digest in flight together, both answered
C12_Witness ==
    /\ tasks[1].pc = "called" /\ tasks[2].pc = "called"
    /\ IsHashOnly(tasks[1].req) /\ IsHashOnly(tasks[2].req)
    /\ HashOf(tasks[1].req) = HashOf(tasks[2].req)
    /\ tasks[1].req.context # tasks[2].req.context
    /\ tasks[1].outcome = "synthesized" /\ tasks[2].outcome = "synthesized"

\* C13: with verified inserts and lookups of several callers interleaved on
\* the shared cache, a key that is present holds the one text whose digest it
\* is, so inserting it again changes nothing, whichever insert came last; and
\* a hash-only request either finds no entry and gets the miss response or is
\* forwarded with that whole text.
C13_ConcurrentInsertsIdempotent ==
    /\ \A k \in DOMAIN cache :
          cache[k] = (CHOOSE q \in Queries \ {""} : Sha256(q) = k)
    /\ \A t \in TaskIds :
          tasks[t].pc # "idle" =>
             /\ (IsVerified(tasks[t].req) /\ tasks[t].before.cached)
                    => ~tasks[t].changed
             /\ IsHashOnly(tasks[t].req) =>
                    IF tasks[t].before.cached
                    THEN /\ tasks[t].outcome = "forwarded"
                         /\ tasks[t].fwd.query = QueryOfHash(tasks[t].req)
                         /\ tasks[t].fwd.query # ""
                    ELSE tasks[t].outcome = "synthesized"

\* two verified requests for one digest in flight together, the entry present
C13_Witness ==
    /\ tasks[1].pc = "called" /\ tasks[2].pc = "called"
    /\ IsVerified(tasks[1].req) /\ tasks[1].req = tasks[2].req
    /\ tasks[1].changed /\ tasks[2].before.cached
    /\ CacheContains(cache, HashOf(tasks[1].req))
    /\ cache[HashOf(tasks[1].req)] = tasks[2].req.query

\* C14: the cache operation of a request is made inside call: when call
\* returns its future, before the inner service's future or the future itself
\* is polled, a verified request's text is in the cache; awaiting or dropping
\* the future afterwards leaves the cache as it is, so the insert of a call
\* whose future was dropped is kept; and a hash-only request called while the
\* entry is there is forwarded with the text.
C14_CacheStepInsideCall ==
    [][\A t \in TaskIds :
          /\ (tasks[t].pc = "idle" /\ tasks'[t].pc = "called")
                => /\ IsVerified(tasks'[t].req)
                        => /\ CacheContains(cache', HashOf(tasks'[t].req))
                           /\ CacheGet(cache', HashOf(tasks'[t].req)) = tasks'[t].req.query
                   /\ (IsHashOnly(tasks'[t].req)
                            /\ CacheContains(cache, HashOf(tasks'[t].req)))
                        => /\ tasks'[t].outcome = "forwarded"
                           /\ tasks'[t].fwd.query = CacheGet(cache, HashOf(tasks'[t].req))
          /\ (tasks[t].pc = "called" /\ tasks'[t].pc \in {"done", "dropped"})
                => cache' = cache]_vars

\* the future of a verified request was dropped, its insert is in the cache
\* and the next request is still to come
C14_Witness ==
    /\ tasks[1].pc = "dropped" /\ IsVerified(tasks[1].req) /\ tasks[1].changed
    /\ CacheContains(cache, HashOf(tasks[1].req))
    /\ CacheGet(cache, HashOf(tasks[1].req)) = tasks[1].req.query
    /\ tasks[2].pc = "idle"

\* C15: poll_ready answers what the inner service's poll_ready answers, ready,
\* pending or failed, and changes neither the cache nor the request: a caller
\* is admitted only on the inner service's Ready, stays waiting on its
\* Pending and gets the failure on its Failed.
C15_PollReadyTransitive ==
    [][(cur.pc = "wait" /\ cur' # cur)
          => /\ cur'.poll = innerReady
             /\ cur'.pc = (CASE innerReady = "Ready" -> "ready"
                             [] innerReady = "Pending" -> "wait"
                             [] innerReady = "Failed" -> "failed")
             /\ cur'.req = cur.req
             /\ cache' = cache
             /\ innerReady' = innerReady]_vars

\* the inner service failed its admission check and the caller got the failure
C15_Witness ==
    /\ cur.pc = "failed" /\ cur.poll = "Failed" /\ innerReady = "Failed"
    /\ IsVerified(cur.req) /\ ~CacheContains(cache, HashOf(cur.req))

\* a body the wire schema does not allow: not an object, or a member of
\* another shape than { "label"?: string, "data"?: object, "path"?:
\* [segment...], "hasNext"?: bool, "errors"?: [...], "extensions"?: object }
WrongShaped(b) ==
    \/ b.kind # "object"
    \/ b.fields["errors"] # Absent /\ Kind(b.fields["errors"]) # "Array"
    \/ b.fields["data"] # Absent /\ Kind(b.fields["data"]) \notin {"Object", "Null"}
    \/ b.fields["extensions"] # Absent /\ Kind(b.fields["extensions"]) # "Object"
    \/ b.fields["path"] # Absent /\ Kind(b.fields["path"]) # "Array"
    \/ b.fields["label"] # Absent /\ Kind(b.fields["label"]) # "String"
    \/ b.fields["hasNext"] # Absent /\ Kind(b.fields["hasNext"]) # "Bool"

\* C16 as stated: from_bytes fails with SubrequestMalformedResponse, carrying
\* the name of the service, for every body that is not a JSON object or that
\* holds errors, data, extensions, path, label or hasNext of the wrong shape.
C16_WrongShapeRejected ==
    (parsed.status # "none" /\ WrongShaped(body))
        => /\ parsed.status = "Err"
           /\ parsed.error = "SubrequestMalformedResponse"
           /\ parsed.service = service

\* C17 as stated: a Response with no label, path or has_next, no errors, no
\* extensions and empty-object or null data serializes to an object without
\* members, and from_bytes of that object gives the default-built Response.
C17_MinimalRoundTrip ==
    (/\ wire # NoWire
     /\ response.label = NoneString /\ response.path = NonePath
     /\ response.has_next = NoneBool /\ response.errors = <<>>
     /\ response.extensions = VEmptyObject
     /\ response.data \in {VEmptyObject, VNull})
        => /\ \A k \in WireKeys : wire.fields[k] = Absent
           /\ (body = wire /\ parsed.status # "none")
                 => parsed = ParseOk(DefaultResponse)

\* C18 as stated: for a body holding "hasNext": b with b a boolean, from_bytes
\* gives has_next = Some(b), as the derived deserializer does.
C18_HasNextFromWireKey ==
    (parsed.status = "Ok" /\ body.fields["hasNext"] \in {"true", "false"})
        => /\ parsed.response.has_next = SomeBool(body.fields["hasNext"] = "true")
           /\ derived.status = "Ok"
                 => derived.response.has_next = parsed.response.has_next

\* C19 as stated: for a body without data member, from_bytes gives data the
\* empty object, the default of the builder, and not null.
C19_AbsentDataIsEmptyObject ==
    (parsed.status = "Ok" /\ body.fields["data"] = Absent)
        => /\ parsed.response.data = DefaultResponse.data
           /\ parsed.response.data # VNull

\* C20: the serialization of a Response holds label, path and hasNext exactly
\* when the field is Some, data exactly when it is neither the empty object
\* nor null, errors exactly when there is one, extensions exactly when not
\* empty; and a member it holds is the JSON of the field's value.
C20_SerializationOmits ==
    wire # NoWire =>
        /\ wire.kind = "object"
        /\ wire.fields["label"] = Absent <=> ~response.label.some
        /\ response.label.some => StringOfValue(wire.fields["label"]) = response.label.v
        /\ wire.fields["path"] = Absent <=> ~response.path.some
        /\ response.path.some
              => PathOfValue(wire.fields["path"]) = [ok |-> TRUE, some |-> TRUE,
                                                      v |-> response.path.v]
        /\ wire.fields["hasNext"] = Absent <=> ~response.has_next.some
        /\ response.has_next.some
              => /\ Kind(wire.fields["hasNext"]) = "Bool"
                 /\ BoolOfValue(wire.fields["hasNext"]) = response.has_next.v
        /\ wire.fields["data"] = Absent <=> response.data \in {VEmptyObject, VNull}
        /\ wire.fields["data"] # Absent => wire.fields["data"] = response.data
        /\ wire.fields["errors"] = Absent <=> response.errors = <<>>
        /\ response.errors # <<>>
              => ErrorsOfValue(wire.fields["errors"]) = [ok |-> TRUE,
                                                         errors |-> response.errors]
        /\ wire.fields["extensions"] = Absent <=> response.extensions = VEmptyObject
        /\ wire.fields["extensions"] # Absent
              => wire.fields["extensions"] = response.extensions
        /\ wire.fields["has_next"] = Absent

\* a serialization with null data left out and every other member there
C20_Witness ==
    /\ wire # NoWire /\ response.data = VNull /\ wire.fields["data"] = Absent
    /\ wire.fields["label"] = VStringPart /\ wire.fields["hasNext"] = "false"
    /\ wire.fields["path"] = VPathArray /\ wire.fields["errors"] = VErrorsArray
    /\ wire.fields["extensions"] = VObjectK

C22_PrimaryIffNoPath ==
    primary.asked => (primary.v <=> response.path = NonePath)

\* a response that is not primary though it has no label and no has_next
C22_Witness ==
    /\ primary.asked /\ ~primary.v
    /\ response.path = SomePath(PathHero)
    /\ response.label = NoneString /\ response.has_next = NoneBool
    /\ response.errors = <<>>

\* the number of entries of the cache
EntryCount(c) == Cardinality(DOMAIN c)

C24_OnlyVerifiedChangesCache ==
    /\ [](Processed => (cur.changed => IsVerified(cur.req)))
    /\ [][cache' # cache
            => \/ \E q \in Queries \ {""} :
                    cache' = [k \in DOMAIN cache \cup {Sha256(q)} |->
                                 IF k = Sha256(q) THEN q ELSE cache[k]]
               \/ /\ DOMAIN cache' \subseteq DOMAIN cache
                  /\ \A k \in DOMAIN cache' : cache'[k] = cache[k]]_vars
    /\ [][(cur' # cur /\ cache' # cache)
            => /\ cur.pc = "ready" /\ cur'.pc = "called"
               /\ IsVerified(cur.req)
               /\ ~CacheContains(cache, HashOf(cur.req))
               /\ CacheContains(cache', HashOf(cur.req))
               /\ CacheGet(cache', HashOf(cur.req)) = cur.req.query]_vars

\* a hit of the observed caller on a cache of two entries, none changed
C24_Witness ==
    /\ cur.pc = "called" /\ IsHashOnly(cur.req) /\ cur.outcome = "forwarded"
    /\ ~cur.changed /\ cur.ops = 1
    /\ Cardinality(DOMAIN cache) = 2

\* a hash string with its letters in lower case, and the lower-case hex
\* spelling of a digest
LowerCase(str) ==
    [i \in 1..Len(str) |->
        IF \E j \in 1..16 : str[i] = UpperDigits[j]
        THEN LowerDigits[CHOOSE j \in 1..16 : str[i] = UpperDigits[j]]
        ELSE str[i]]
HexEncode(bytes) ==
    [i \in 1..(2 * Len(bytes)) |->
        IF i % 2 = 1 THEN LowerDigits[(bytes[(i + 1) \div 2] \div 16) + 1]
        ELSE LowerDigits[(bytes[i \div 2] % 16) + 1]]
\* both over the digests and the hash strings of the model, evaluated once
HexEncodeOf ==
    [k \in {DigestEmpty, DigestTypename, DigestMe, DigestHello} |-> HexEncode(k)]
LowerCaseOf == [str \in HashStrings |-> LowerCase(str)]
\* the keys of cache c that the hash string str spells, in either letter case
KeysSpelled(c, str) == {k \in DOMAIN c : HexEncodeOf[k] = LowerCaseOf[str]}

\* C25: the key of an entry is the digest, whatever the letter case of the
\* hash string that named it: a verified request stores its query under the
\* digest its hash string spells in either case, and a hash-only request is
\* a hit, forwarded with the stored text, exactly when the cache holds the
\* digest its hash string spells in either case.
C25_KeyedByDigestBytes ==
    [][\A t \in TaskIds :
          (tasks[t].pc = "idle" /\ tasks'[t].pc = "called")
             => LET req == tasks'[t].req
                    str == req.persistedQuery.sha256Hash.s
                IN  /\ (req.query = "" /\ KeysSpelled(cache, str) # {})
                          => /\ tasks'[t].outcome = "forwarded"
                             /\ \A k \in KeysSpelled(cache, str) :
                                   tasks'[t].fwd.query = cache[k]
                    /\ (req.query = "" /\ KeysSpelled(cache, str) = {})
                          => tasks'[t].outcome = "synthesized"
                    /\ (req.query # "" /\ HexEncodeOf[Sha256(req.query)] = LowerCaseOf[str])
                          => /\ KeysSpelled(cache', str) = {Sha256(req.query)}
                             /\ cache'[Sha256(req.query)] = req.query]_vars

\* the query was stored by a request spelling the hash in lower case and is
\* found by a request spelling it in upper case
C25_Witness ==
    /\ tasks[1].pc # "idle" /\ tasks[1].req.persistedQuery = PQ(HexTypename)
    /\ IsVerified(tasks[1].req) /\ tasks[1].changed
    /\ tasks[2].pc # "idle" /\ tasks[2].req.persistedQuery = PQ(HexTypenameUpper)
    /\ tasks[2].req.query = "" /\ tasks[2].outcome = "forwarded"
    /\ tasks[2].fwd.query = QTypename

\* C26: an apply with a complete config logs the notice exactly when ENABLED
\* was false just before its swap, and an apply with an incomplete config
\* never logs it; of the complete applies that swap between two resets of the
\* flag (or before the first) exactly the first finds the flag false, so the
\* notice is logged once for them, however the applies interleave.
C26_NoticeOnTransition ==
    /\ \A a \in ApplyIds :
          /\ applies[a].pc \in {"return", "done"}
                => (applies[a].logged <=> (applies[a].complete /\ ~applies[a].before))
          /\ applies[a].pc = "log"
                => (applies[a].complete /\ ~applies[a].before /\ ~applies[a].logged)
          /\ applies[a].pc \in {"log", "return", "done"}
                => applies[a].old = applies[a].before
    /\ sinceReset.first = (IF sinceReset.complete > 0 THEN 1 ELSE 0)
    /\ enabled <=> sinceReset.complete > 0

\* two complete applies with no incomplete one between their swaps: one
\* logged the notice, the other did not
C26_Witness ==
    /\ applies[1].pc = "done" /\ applies[1].complete /\ ~applies[1].logged
    /\ applies[2].pc = "done" /\ applies[2].complete /\ applies[2].logged
    /\ sinceReset.complete = 2

TypeOK ==
    /\ DOMAIN cache \subseteq {DigestEmpty, DigestTypename, DigestMe, DigestHello}
    /\ innerReady \in Readiness
    /\ cur.pc \in {"idle", "wait", "ready", "called", "done", "dropped", "failed"}
    /\ presented \subseteq Queries
    /\ e2e \in -1..3
    /\ \A t \in TaskIds : tasks[t].pc \in {"idle", "called", "done", "dropped"}
    /\ service \in Services \cup {""}
    /\ body.kind \in {"none", "object", "array", "string", "invalid"}
    /\ parsed.status \in {"none", "Ok", "Err"}
    /\ derived.status \in {"none", "Ok", "Err"}
    /\ wire.kind \in {"none", "object"}
    /\ enabled \in BOOLEAN
    /\ \A a \in ApplyIds : applies[a].pc \in {"idle", "swap", "log", "return", "done"}
    /\ sinceReset.complete \in 0..MaxApplies
====
